---- MODULE Spec2Model ----
(***************************************************************************)
(* A model of zerver/lib/bot_lib.py: the per-bot state store               *)
(* (StateHandler) and the rate-limited message gateway                     *)
(* (EmbeddedBotHandler).                                                   *)
(*                                                                         *)
(* Python strings are sequences of one-character strings.  The persistence *)
(* backend (zerver.models), the delivery primitive (zerver.lib.actions)    *)
(* and the limiter (zulip_bots.lib.RateLimit) are imported by bot_lib.py   *)
(* and are not part of it; they are modelled from their interfaces.        *)
(***************************************************************************)
EXTENDS Integers, Sequences, FiniteSets, TLC

VARIABLES
    bot_state,      \* backend table: identity -> (key -> stored payload)
    ret,            \* outcome of the latest StateHandler call
    last_put,       \* history: identity -> (key -> value of the latest accepted put)
    th,             \* the local variables of each thread that is inside put
    user_profile,   \* the identity the facade is bound to
    rate_limit,     \* the facade's RateLimit object
    now,            \* time.time(), in whole seconds
    sent,           \* arguments of the latest internal_send_message call
    calls,          \* the send_message calls so far: when, and what became of each
    invocation,     \* "running", or "aborted" by the limiter's exit handler
    peer            \* a second EmbeddedBotHandler object, not the one being called

store_vars == <<bot_state, ret, last_put, th>>
facade_vars == <<user_profile, rate_limit, now, sent, calls, invocation, peer>>
vars == <<bot_state, ret, last_put, th, user_profile, rate_limit, now, sent, calls, invocation, peer>>

----------------------------------------------------------------------------
(* Bounds of the model *)

\* The source sets StateHandler.state_size_limit = 10000000 (bot_lib.py:40), a
\* class attribute that deployments and tests override; the model runs the same
\* code against a limit small enough to be reached by short strings.
state_size_limit == 7

\* Longest value string passed to put.
MaxValLen == 1

\* The clock stops here.
MaxTime == 5

\* Most send_message calls of one invocation.
MaxSends == 21

\* The limiters checked on their own allow bursts and windows up to these,
\* and are called at most MaxCalls times.
MaxBurst == 2
MaxWindow == 2
MaxCalls == 6

----------------------------------------------------------------------------
(* Input domains *)

Identities == {"bot1", "bot2"}

Keys == {<<"a">>, <<"b", "b">>}

\* Characters of value strings: a plain one, and one that JSON must escape.
Alphabet == {"a", "\""}

RECURSIVE StringsUpTo(_)
StringsUpTo(n) ==
    IF n = 0 THEN {<<>>}
    ELSE LET shorter == StringsUpTo(n - 1)
         IN  shorter \cup {Append(s, c) : s \in {x \in shorter : Len(x) = n - 1}, c \in Alphabet}

Values == StringsUpTo(MaxValLen)

Threads == {"t1", "t2"}

----------------------------------------------------------------------------
(* json.dumps / json.loads on strings (StateHandler.marshal / demarshal) *)

Quote == "\""
Backslash == "\\"

\* The body of a JSON string literal: '"' and '\' are escaped with a backslash.
RECURSIVE json_escape(_)
json_escape(s) ==
    IF s = <<>> THEN <<>>
    ELSE LET c == Head(s)
         IN  (IF c = Quote \/ c = Backslash THEN <<Backslash, c>> ELSE <<c>>)
             \o json_escape(Tail(s))

\* self.marshal = lambda obj: json.dumps(obj), for a str obj.
marshal_no_escape(obj) == <<Quote>> \o obj \o <<Quote>>
marshal(obj) == <<Quote>> \o json_escape(obj) \o <<Quote>>

\* The inverse of json_escape; [ok |-> FALSE] when the body is not a valid one.
RECURSIVE json_unescape(_)
json_unescape(s) ==
    IF s = <<>> THEN [ok |-> TRUE, val |-> <<>>]
    ELSE IF Head(s) = Quote THEN [ok |-> FALSE, val |-> <<>>]
    ELSE IF Head(s) = Backslash
         THEN IF Len(s) < 2 \/ ~(s[2] \in {Quote, Backslash})
              THEN [ok |-> FALSE, val |-> <<>>]
              ELSE LET rest == json_unescape(SubSeq(s, 3, Len(s)))
                   IN  [ok |-> rest.ok, val |-> <<s[2]>> \o rest.val]
    ELSE LET rest == json_unescape(Tail(s))
         IN  [ok |-> rest.ok, val |-> <<Head(s)>> \o rest.val]

\* self.demarshal = lambda obj: json.loads(obj), for a payload holding a string.
demarshal(payload) ==
    IF Len(payload) < 2 \/ payload[1] # Quote \/ payload[Len(payload)] # Quote
    THEN [ok |-> FALSE, val |-> <<>>]
    ELSE json_unescape(SubSeq(payload, 2, Len(payload) - 1))

----------------------------------------------------------------------------
(* The persistence backend (zerver.models), from its interface *)

RECURSIVE SumSizes(_, _)
SumSizes(entries, keys) ==
    IF keys = {} THEN 0
    ELSE LET k == CHOOSE x \in keys : TRUE
         IN  Len(k) + Len(entries[k]) + SumSizes(entries, keys \ {k})

\* get_bot_state_size(bot_profile, key): the entry's size, 0 when there is none.
get_bot_state_size_key(table, id, key) ==
    IF key \in DOMAIN table[id] THEN Len(key) + Len(table[id][key]) ELSE 0

\* get_bot_state_size(bot_profile): the total over the identity's entries.
get_bot_state_size(table, id) == SumSizes(table[id], DOMAIN table[id])

\* is_key_in_bot_state(bot_profile, key)
is_key_in_bot_state(table, id, key) == key \in DOMAIN table[id]

\* set_bot_state(bot_profile, key, value): insert or overwrite one entry.
set_bot_state(table, id, key, payload) ==
    [table EXCEPT ![id] = [k \in (DOMAIN @) \cup {key} |-> IF k = key THEN payload ELSE @[k]]]

\* get_bot_state(bot_profile, key): the stored payload, None when there is none.
get_bot_state(table, id, key) ==
    IF key \in DOMAIN table[id]
    THEN [found |-> TRUE, payload |-> table[id][key]]
    ELSE [found |-> FALSE, payload |-> <<>>]

Empty == [k \in {} |-> <<>>]

----------------------------------------------------------------------------
(* StateHandler.put, as the values it computes *)

\* Lines 54-57, given the two sizes read from the backend.
put_sizes(key, value, old_entry_size, old_state_size) ==
    LET new_entry_size == Len(key) + Len(value)
    IN  [old_entry_size |-> old_entry_size,
         new_entry_size |-> new_entry_size,
         old_state_size |-> old_state_size,
         new_state_size |-> old_state_size + (new_entry_size - old_entry_size)]

\* Line 58: the quota branch.  Keys and values of the model are str, so the
\* two type branches (lines 61 and 65) are never taken.
put_raises_at_limit(new_state_size) == new_state_size >= state_size_limit
put_raises(new_state_size) == new_state_size > state_size_limit

\* Lines 58-68: the table after the call.
put_table_writes_anyway(table, id, key, value, new_state_size) ==
    set_bot_state(table, id, key, marshal(value))
put_table(table, id, key, value, new_state_size) ==
    IF put_raises(new_state_size)
    THEN table
    ELSE set_bot_state(table, id, key, marshal(value))

\* The history of accepted puts after the call.
put_history(hist, id, key, value, new_state_size) ==
    IF put_raises(new_state_size)
    THEN hist
    ELSE [hist EXCEPT ![id] = [k \in (DOMAIN @) \cup {key} |-> IF k = key THEN value ELSE @[k]]]

put_ret(t, id, key, value, sizes) ==
    [op |-> "put", thread |-> t, id |-> id, key |-> key, value |-> value,
     raised |-> put_raises(sizes.new_state_size),
     old_state_size |-> sizes.old_state_size,
     new_state_size |-> sizes.new_state_size]

----------------------------------------------------------------------------
(* The limiter (zulip_bots.lib.RateLimit), from its interface *)

\* RateLimit(message_limit, interval_limit)
RateLimit(message_limit, interval_limit) ==
    [message_limit |-> message_limit, interval_limit |-> interval_limit,
     message_list |-> <<>>]

\* The attempts of the trailing window: now - interval_limit < t <= now.
InWindow(message_list, interval_limit, t_now) ==
    {i \in DOMAIN message_list :
        t_now - interval_limit < message_list[i] /\ message_list[i] <= t_now}

\* is_legal(): record this attempt, then count the attempts of the window.
is_legal_list_admitted_only(rl, t_now) ==
    IF Cardinality(InWindow(Append(rl.message_list, t_now), rl.interval_limit, t_now))
           <= rl.message_limit
    THEN Append(rl.message_list, t_now)
    ELSE rl.message_list
is_legal_list(rl, t_now) == Append(rl.message_list, t_now)
is_legal(rl, t_now) ==
    Cardinality(InWindow(is_legal_list(rl, t_now), rl.interval_limit, t_now))
        <= rl.message_limit

\* Line 79: self._rate_limit = RateLimit(20, 5)
EmbeddedBotHandler_rate_limit_swapped == RateLimit(5, 20)
EmbeddedBotHandler_rate_limit == RateLimit(20, 5)

\* The UserProfile of a bot.
Profile(id) ==
    [id |-> id, email |-> id \o "@zulip", realm |-> "realm-of-" \o id, full_name |-> id]

Profiles == {Profile(id) : id \in Identities}

----------------------------------------------------------------------------
(* StateHandler called from one thread: each call runs to completion *)

Idle == [pc |-> "idle"]

InitStore ==
    /\ bot_state = [id \in Identities |-> Empty]
    /\ last_put = [id \in Identities |-> Empty]
    /\ ret = [op |-> "none"]
    /\ th = [t \in Threads |-> Idle]

\* Lines 75-82: the object EmbeddedBotHandler(profile) constructs, with a
\* RateLimit of its own; calls and invocation are its history so far.
EmbeddedBotHandler(profile) ==
    [user_profile |-> profile,
     rate_limit |-> EmbeddedBotHandler_rate_limit,
     calls |-> <<>>,
     invocation |-> "running"]

\* EmbeddedBotHandler(profile), and a second handler of another bot.
InitFacade(profile) ==
    /\ user_profile = EmbeddedBotHandler(profile).user_profile
    /\ rate_limit = EmbeddedBotHandler(profile).rate_limit
    /\ now = 0
    /\ sent = [op |-> "none"]
    /\ calls = EmbeddedBotHandler(profile).calls
    /\ invocation = EmbeddedBotHandler(profile).invocation
    /\ peer = EmbeddedBotHandler(Profile("bot2"))

Init == InitStore /\ InitFacade(Profile("bot1"))

\* StateHandler(user_profile).put(key, value)
put(id, key, value) ==
    LET sizes == put_sizes(key, value,
                           get_bot_state_size_key(bot_state, id, key),
                           get_bot_state_size(bot_state, id))
    IN  /\ bot_state' = put_table(bot_state, id, key, value, sizes.new_state_size)
        /\ last_put' = put_history(last_put, id, key, value, sizes.new_state_size)
        /\ ret' = put_ret("main", id, key, value, sizes)
        /\ UNCHANGED <<th, facade_vars>>

\* StateHandler(user_profile).get(key): json.loads of the payload; of None
\* (no entry) it raises TypeError, of an invalid payload ValueError.
get_ret(table, id, key) ==
    LET got == get_bot_state(table, id, key)
        val == demarshal(got.payload)
    IN  [op |-> "get", id |-> id, key |-> key,
         raised |-> IF ~got.found THEN "TypeError"
                    ELSE IF ~val.ok THEN "ValueError" ELSE "no",
         value |-> IF got.found /\ val.ok THEN val.val ELSE <<>>]

get_popping(id, key) ==
    /\ ret' = get_ret(bot_state, id, key)
    /\ bot_state' = [bot_state EXCEPT ![id] = [k \in (DOMAIN @) \ {key} |-> @[k]]]
    /\ UNCHANGED <<last_put, th, facade_vars>>
get(id, key) ==
    /\ ret' = get_ret(bot_state, id, key)
    /\ UNCHANGED <<bot_state, last_put, th, facade_vars>>

\* StateHandler(user_profile).contains(key)
contains(id, key) ==
    /\ ret' = [op |-> "contains", id |-> id, key |-> key,
               result |-> is_key_in_bot_state(bot_state, id, key)]
    /\ UNCHANGED <<bot_state, last_put, th, facade_vars>>

StoreNext ==
    \E id \in Identities, key \in Keys :
        \/ \E value \in Values : put(id, key, value)
        \/ get(id, key)
        \/ contains(id, key)

SpecStore == Init /\ [][StoreNext]_vars

----------------------------------------------------------------------------
(* Claims about the store, one caller at a time (SpecStore) *)

\* C1: the total size the backend reports for an identity (sum over its
\* entries of key length plus stored payload length) never exceeds
\* state_size_limit.
C1_QuotaInvariant ==
    \A id \in Identities : get_bot_state_size(bot_state, id) <= state_size_limit

\* C2: a put whose computed new total exceeds the limit raises and writes
\* nothing: every entry of every identity, and so every total, is as before.
C2_RejectedPutWritesNothing ==
    [][(ret'.op = "put" /\ ret'.new_state_size > state_size_limit)
           => (ret'.raised /\ bot_state' = bot_state)]_vars

\* A put was rejected while its key holds an earlier value.
C2_Witness ==
    /\ ret.op = "put"
    /\ ret.raised
    /\ ret.key \in DOMAIN bot_state[ret.id]
    /\ demarshal(bot_state[ret.id][ret.key]).val # ret.value

\* C5: get(key) returns exactly the value of the latest accepted put for key,
\* whatever was put under other keys in between.
C5_GetRoundTrip ==
    (ret.op = "get" /\ ret.key \in DOMAIN last_put[ret.id])
        => (ret.raised = "no" /\ ret.value = last_put[ret.id][ret.key])

\* get returned a value that JSON escapes, with both keys of the identity set.
C5_Witness ==
    /\ ret.op = "get"
    /\ ret.raised = "no"
    /\ ret.value = <<Quote>>
    /\ DOMAIN last_put[ret.id] = Keys

\* C6: contains(key) is true in the state right after an accepted put(key, ..),
\* and false for a key no put on the identity was ever accepted for.
C6_Contains ==
    /\ (ret.op = "put" /\ ~ret.raised) => is_key_in_bot_state(bot_state, ret.id, ret.key)
    /\ ret.op = "contains" => (ret.result <=> ret.key \in DOMAIN last_put[ret.id])

\* contains answered true for one key of an identity whose other key was never set.
C6_Witness ==
    /\ ret.op = "contains"
    /\ ret.result
    /\ DOMAIN last_put[ret.id] = {ret.key}

----------------------------------------------------------------------------
(* StateHandler.put called from several threads.  put holds no lock and    *)
(* opens no transaction, so between any two of its backend calls another   *)
(* thread's backend call may run.  Each backend call is one step.          *)

\* Line 54: old_entry_size = get_bot_state_size(self.user_profile, key)
put_line54(t, id, key, value) ==
    /\ th[t].pc = "idle"
    /\ th' = [th EXCEPT ![t] =
                 [pc |-> "line56", id |-> id, key |-> key, value |-> value,
                  old_entry_size |-> get_bot_state_size_key(bot_state, id, key)]]
    /\ UNCHANGED <<bot_state, last_put, ret, facade_vars>>

\* Line 56: old_state_size = get_bot_state_size(self.user_profile)
put_line56_all_bots(t) ==
    /\ th[t].pc = "line56"
    /\ th' = [th EXCEPT ![t] =
                 [pc |-> "line58", id |-> @.id, key |-> @.key, value |-> @.value,
                  old_entry_size |-> @.old_entry_size,
                  old_state_size |-> get_bot_state_size(bot_state, "bot1")
                                        + get_bot_state_size(bot_state, "bot2")]]
    /\ UNCHANGED <<bot_state, last_put, ret, facade_vars>>
put_line56(t) ==
    /\ th[t].pc = "line56"
    /\ th' = [th EXCEPT ![t] =
                 [pc |-> "line58", id |-> @.id, key |-> @.key, value |-> @.value,
                  old_entry_size |-> @.old_entry_size,
                  old_state_size |-> get_bot_state_size(bot_state, @.id)]]
    /\ UNCHANGED <<bot_state, last_put, ret, facade_vars>>

\* Lines 57-68: the check on the sizes read earlier, then the write or the raise.
put_line58(t) ==
    /\ th[t].pc = "line58"
    /\ LET me == th[t]
           sizes == put_sizes(me.key, me.value, me.old_entry_size, me.old_state_size)
       IN  /\ bot_state' = put_table(bot_state, me.id, me.key, me.value, sizes.new_state_size)
           /\ last_put' = put_history(last_put, me.id, me.key, me.value, sizes.new_state_size)
           /\ ret' = put_ret(t, me.id, me.key, me.value, sizes)
    /\ th' = [th EXCEPT ![t] = Idle]
    /\ UNCHANGED facade_vars

\* Both threads serve the same bot.
RaceIdentities == {"bot1"}

RaceNext ==
    \E t \in Threads :
        \/ \E id \in RaceIdentities, key \in Keys, value \in Values :
               put_line54(t, id, key, value)
        \/ put_line56(t)
        \/ put_line58(t)

SpecRace == Init /\ [][RaceNext]_vars

\* The same two threads, each writing a key of its own.
KeyOf == [t \in Threads |-> IF t = "t1" THEN <<"a">> ELSE <<"b", "b">>]

DisjointNext ==
    \E t \in Threads :
        \/ \E id \in RaceIdentities, value \in Values : put_line54(t, id, KeyOf[t], value)
        \/ put_line56(t)
        \/ put_line58(t)

SpecRaceDisjoint == Init /\ [][DisjointNext]_vars

\* C3: the size check and the write of put are atomic with respect to other
\* puts on the identity: no put writes on the basis of a total that another
\* put has changed since it was read.
C3_PutsSerialized ==
    [][\A t \in Threads :
          (put_line58(t) /\ ~ret'.raised)
              => th[t].old_state_size = get_bot_state_size(bot_state, th[t].id)]_vars

\* C4: with two threads putting disjoint keys of one identity, the new total
\* a put computed equals the sum of the sizes of the entries stored right
\* after that put's write.
C4_ComputedTotalIsStoredTotal ==
    (ret.op = "put" /\ ~ret.raised)
        => ret.new_state_size = get_bot_state_size(bot_state, ret.id)

----------------------------------------------------------------------------
(* EmbeddedBotHandler *)

None == <<>>
Some(x) == <<x>>

\* ','.join(addresses)
RECURSIVE join(_)
join(addresses) ==
    IF addresses = <<>> THEN ""
    ELSE IF Len(addresses) = 1 THEN addresses[1]
    ELSE addresses[1] \o "," \o join(Tail(addresses))

\* message.get('subject', None)
get_subject(message) ==
    IF "subject" \in DOMAIN message THEN Some(message.subject) ELSE None

\* Lines 87-90: the arguments of the internal_send_message call.
internal_send_message_args_trusting(profile, message) ==
    [op |-> "internal_send_message",
     realm |-> profile.realm,
     sender_email |-> IF "sender_email" \in DOMAIN message
                      THEN message.sender_email ELSE profile.email,
     recipient_type_name |-> message.type,
     recipients |-> IF message.type = "stream" THEN message.to ELSE join(message.to),
     subject |-> get_subject(message),
     content |-> message.content]
internal_send_message_args_first_only(profile, message) ==
    [op |-> "internal_send_message",
     realm |-> profile.realm,
     sender_email |-> profile.email,
     recipient_type_name |-> message.type,
     recipients |-> IF message.type = "stream" THEN message.to ELSE message.to[1],
     subject |-> get_subject(message),
     content |-> message.content]
internal_send_message_args(profile, message) ==
    [op |-> "internal_send_message",
     realm |-> profile.realm,
     sender_email |-> profile.email,
     recipient_type_name |-> message.type,
     recipients |-> IF message.type = "stream" THEN message.to ELSE join(message.to),
     subject |-> get_subject(message),
     content |-> message.content]

\* Line 86: the branch that delivers.
send_message_delivers_always(legal) == TRUE
send_message_delivers(legal) == legal

\* Lines 91-92: the branch that calls self._rate_limit.show_error_and_exit().
send_message_exits(legal) == ~legal

\* handler.send_message(message)
send_message(message) ==
    /\ Len(calls) < MaxSends
    /\ LET legal == is_legal(rate_limit, now)
       IN  /\ rate_limit' = [rate_limit EXCEPT !.message_list = is_legal_list(rate_limit, now)]
           /\ sent' = IF send_message_delivers(legal)
                      THEN internal_send_message_args(user_profile, message)
                      ELSE sent
           /\ calls' = Append(calls, [at |-> now, legal |-> legal,
                                      delivered |-> send_message_delivers(legal)])
           \* show_error_and_exit() ends the invocation with a failure;
           \* nothing in send_message catches it.
           /\ invocation' = IF send_message_exits(legal) THEN "aborted" ELSE invocation
    /\ UNCHANGED <<store_vars, user_profile, now, peer>>

\* Lines 96-110: the message send_reply hands to send_message.
reply_message_without_sender(message, response) ==
    IF message.type = "private"
    THEN [type |-> "private",
          to |-> SelectSeq([i \in DOMAIN message.display_recipient |->
                               message.display_recipient[i].email],
                           LAMBDA e : e # message.sender_email),
          content |-> response,
          sender_email |-> message.sender_email]
    ELSE [type |-> "stream",
          to |-> message.display_recipient,
          subject |-> message.subject,
          content |-> response,
          sender_email |-> message.sender_email]
reply_message(message, response) ==
    IF message.type = "private"
    THEN [type |-> "private",
          to |-> [i \in DOMAIN message.display_recipient |-> message.display_recipient[i].email],
          content |-> response,
          sender_email |-> message.sender_email]
    ELSE [type |-> "stream",
          to |-> message.display_recipient,
          subject |-> message.subject,
          content |-> response,
          sender_email |-> message.sender_email]

\* handler.send_reply(message, response); a message lacking a key that
\* send_reply reads raises KeyError before anything is sent.
send_reply(message, response) ==
    /\ {"type", "display_recipient", "sender_email"} \subseteq DOMAIN message
    /\ message.type # "private" => "subject" \in DOMAIN message
    /\ send_message(reply_message(message, response))

\* handler.storage.put(key, value)
storage_put(key, value) == put(user_profile.id, key, value)

\* handler.storage.get(key)
storage_get(key) == get(user_profile.id, key)

\* handler.storage.contains(key)
storage_contains(key) == contains(user_profile.id, key)

\* A second passes.
Tick ==
    /\ now < MaxTime
    /\ now' = now + 1
    /\ UNCHANGED <<store_vars, user_profile, rate_limit, sent, calls, invocation, peer>>

\* The platform turns to the other EmbeddedBotHandler object: what is
\* called from now on is that object, with the fields its own __init__
\* (lines 75-82) gave it.
other_facade_sharing_limiter ==
    /\ peer' = [user_profile |-> user_profile, rate_limit |-> rate_limit,
                calls |-> calls, invocation |-> invocation]
    /\ user_profile' = peer.user_profile
    /\ rate_limit' = rate_limit
    /\ calls' = peer.calls
    /\ invocation' = peer.invocation
    /\ UNCHANGED <<store_vars, now, sent>>
other_facade ==
    /\ peer' = [user_profile |-> user_profile, rate_limit |-> rate_limit,
                calls |-> calls, invocation |-> invocation]
    /\ user_profile' = peer.user_profile
    /\ rate_limit' = peer.rate_limit
    /\ calls' = peer.calls
    /\ invocation' = peer.invocation
    /\ UNCHANGED <<store_vars, now, sent>>

\* The bot logic of the invocation a facade serves makes a call.  Once
\* show_error_and_exit() has ended the invocation, control never returns
\* to the bot logic, so it makes no call.
bot_logic_catching_exit(call) == call
bot_logic(call) ==
    /\ invocation = "running"
    /\ call

----------------------------------------------------------------------------
(* Input messages *)

\* Messages bot logic passes to send_message; some carry a sender of their own.
Messages ==
    { [type |-> "stream", to |-> "denmark", subject |-> "lunch", content |-> "hi"],
      [type |-> "stream", to |-> "denmark", content |-> "hi"],
      [type |-> "stream", to |-> "denmark", subject |-> "lunch", content |-> "hi",
       sender_email |-> "eve@zulip"],
      [type |-> "private", to |-> <<"ann@zulip">>, content |-> "hi"],
      [type |-> "private", to |-> <<"ann@zulip", "bob@zulip">>, content |-> "hi",
       sender_email |-> "eve@zulip"],
      [type |-> "group", to |-> <<"cat@zulip", "ann@zulip", "bob@zulip">>,
       content |-> "hello"] }

\* Messages received by the bot, as send_reply reads them.
Originals ==
    { [type |-> "private", sender_email |-> "ann@zulip", subject |-> "",
       display_recipient |-> <<[email |-> "ann@zulip"], [email |-> "bot1@zulip"]>>],
      [type |-> "private", sender_email |-> "bob@zulip", subject |-> "",
       display_recipient |-> <<[email |-> "bob@zulip"], [email |-> "ann@zulip"],
                               [email |-> "bot2@zulip"]>>],
      [type |-> "stream", sender_email |-> "ann@zulip", subject |-> "lunch",
       display_recipient |-> "denmark"] }

Responses == {"pong"}

\* The one message of the specifications that vary the timing instead.
Ping == [type |-> "stream", to |-> "denmark", subject |-> "lunch", content |-> "hi"]

----------------------------------------------------------------------------
(* Specifications of the facade *)

\* Timing: one message, sent at any times.
RateNext ==
    \/ send_message(Ping)
    \/ Tick

SpecRate == Init /\ [][RateNext]_vars

\* Content: any message or reply, for a facade bound to any bot.
SendInit == InitStore /\ \E profile \in Profiles : InitFacade(profile)

SendNext ==
    \/ \E message \in Messages : send_message(message)
    \/ \E message \in Originals, response \in Responses : send_reply(message, response)

SpecSend == SendInit /\ [][SendNext]_vars

\* Two invocations, each served by a facade of its own, that send and
\* write state in any interleaving; each goes on while the other is aborted.
\* The value written is always the same: what matters here is who writes.
InvocationValues == {<<"a">>}

InvocationNext ==
    \/ bot_logic(send_message(Ping))
    \/ \E key \in Keys, value \in InvocationValues : bot_logic(storage_put(key, value))
    \/ other_facade

SpecInvocation == Init /\ [][InvocationNext]_vars

----------------------------------------------------------------------------
(* Claims about the facade *)

\* The calls of the 5-second span that ends with call j: those made later
\* than 5 seconds before it, call j included.
SpanOf(j) == {i \in 1..j : calls[j].at - 5 < calls[i].at}

\* C7: with RateLimit(20, 5), a call to is_legal() returns true when it is
\* among the first 20 calls of the 5-second span that ends with it and
\* false when it is the 21st; so it returns true again once the window has
\* passed since the earlier calls.  (Stated of the latest call; every call
\* is the latest one in the state it returns in.)
C7_TwentyPerFiveSeconds ==
    calls # <<>> =>
        LET j == Len(calls)
            n == Cardinality(SpanOf(j))
        IN  /\ n <= 20 => calls[j].legal
            /\ n >= 21 => ~calls[j].legal

\* Twenty calls of one span were admitted and the 21st was refused.
C7_Witness ==
    /\ Len(calls) = 21
    /\ calls[21].at - calls[1].at < 5
    /\ \A i \in 1..20 : calls[i].legal
    /\ ~calls[21].legal

\* After twenty calls, a call made once their window has passed is admitted.
C7_AdmittedAgain ==
    /\ Len(calls) = 21
    /\ calls[21].at - calls[20].at >= 5
    /\ calls[21].legal

\* C8: send_message calls internal_send_message only in a call where
\* is_legal() returned true; when it returned false it calls the limiter's
\* exit handler and delivers nothing.  So at most 20 deliveries fall in any
\* 5-second window.
C8_DeliversOnlyWhenLegal ==
    /\ \A j \in DOMAIN calls : calls[j].delivered <=> calls[j].legal
    /\ (\E j \in DOMAIN calls : ~calls[j].legal) => invocation = "aborted"
    /\ (sent.op = "none") <=> (\A j \in DOMAIN calls : ~calls[j].delivered)
    /\ calls # <<>> =>
           Cardinality({i \in SpanOf(Len(calls)) : calls[i].delivered}) <= 20

\* A call was refused after deliveries at two different times.
C8_Witness ==
    /\ Len(calls) >= 21
    /\ ~calls[Len(calls)].legal
    /\ ~calls[Len(calls)].delivered
    /\ calls[1].delivered
    /\ calls[1].at < calls[Len(calls)].at
    /\ invocation = "aborted"

\* The facade bound to bot id (the one being called, or the other one) and
\* the invocation it serves.
FacadeOf(id) ==
    IF user_profile.id = id
    THEN [calls |-> calls, invocation |-> invocation]
    ELSE [calls |-> peer.calls, invocation |-> peer.invocation]

C10_SenderIsBoundIdentity ==
    sent.op = "internal_send_message"
        => (sent.sender_email = user_profile.email /\ sent.realm = user_profile.realm)

\* A reply to a private message written by someone else was delivered.
C10_Witness ==
    /\ sent.op = "internal_send_message"
    /\ sent.content = "pong"
    /\ sent.recipient_type_name = "private"
    /\ user_profile.id = "bot2"

\* The addresses of a comma-joined recipients string.
RECURSIVE AddressesFrom(_, _)
AddressesFrom(recipients, start) ==
    IF start > Len(recipients) + 1 THEN {}
    ELSE LET commas == {i \in start..Len(recipients) : SubSeq(recipients, i, i) = ","}
             stop == IF commas = {} THEN Len(recipients) + 1
                     ELSE CHOOSE i \in commas : \A k \in commas : i <= k
         IN  {SubSeq(recipients, start, stop - 1)} \cup AddressesFrom(recipients, stop + 1)

\* C11: an admitted send_reply(original, text) makes one delivery, with
\* content text: for a private original a private message whose recipients
\* are exactly the addresses of original's display_recipient; otherwise a
\* stream message to original's stream with original's subject.
C11_ReplyAddressing ==
    [][\A message \in Originals, response \in Responses :
          (send_reply(message, response) /\ calls'[Len(calls')].legal)
              => /\ Len(calls') = Len(calls) + 1
                 /\ calls'[Len(calls')].delivered
                 /\ sent'.content = response
                 /\ IF message.type = "private"
                    THEN /\ sent'.recipient_type_name = "private"
                         /\ AddressesFrom(sent'.recipients, 1) =
                                {message.display_recipient[i].email :
                                     i \in DOMAIN message.display_recipient}
                    ELSE /\ sent'.recipient_type_name = "stream"
                         /\ sent'.recipients = message.display_recipient
                         /\ sent'.subject = Some(message.subject)]_vars

\* A reply to a private message of three participants was delivered.
C11_Witness ==
    /\ sent.op = "internal_send_message"
    /\ sent.content = "pong"
    /\ sent.recipient_type_name = "private"
    /\ AddressesFrom(sent.recipients, 1) = {"bob@zulip", "ann@zulip", "bot2@zulip"}

----------------------------------------------------------------------------
(* Further claims about the store *)

\* C12: get(key) for a key without a stored entry fails with the not-found
\* kind of error, which is not the error of an invalid payload, and leaves
\* the store as it was.
C12_MissingKeyIsNotFound ==
    (ret.op = "get" /\ ~is_key_in_bot_state(bot_state, ret.id, ret.key))
        => ret.raised = "NotFoundError"

----------------------------------------------------------------------------
(* StateHandler.put with a key of any Python type *)

\* A Python object passed as key: a str, a bytes object of the same
\* characters, or an int (which has no len()).
PyKeys ==
    {[type |-> "str", v |-> k] : k \in Keys}
        \cup {[type |-> "bytes", v |-> k] : k \in Keys}
        \cup {[type |-> "int", v |-> <<>>]}

\* Lines 55-67: how put ends for this key and this new total.  len(key) of
\* an int raises TypeError at line 55; the quota branch (line 58) is tested
\* before the key type branch (line 61).
put_error(pykey, new_state_size) ==
    IF pykey.type = "int" THEN "TypeError"
    ELSE IF new_state_size > state_size_limit THEN "StateHandlerError: storage limit"
    ELSE IF pykey.type # "str" THEN "StateHandlerError: key type"
    ELSE "no"

\* StateHandler(user_profile).put(key, value) for a key that is not a str: no
\* stored entry has such a key, so old_entry_size is 0, and line 68 is never
\* reached.
put_not_str(id, pykey, value) ==
    LET sizes == put_sizes(pykey.v, value, 0, get_bot_state_size(bot_state, id))
    IN  /\ ret' = [op |-> "put", thread |-> "main", id |-> id, keytype |-> pykey.type,
                   key |-> pykey.v, value |-> value, raised |-> TRUE,
                   error |-> put_error(pykey, sizes.new_state_size)]
        /\ UNCHANGED <<bot_state, last_put, th, facade_vars>>

put_any(id, pykey, value) ==
    IF pykey.type = "str" THEN put(id, pykey.v, value) ELSE put_not_str(id, pykey, value)

TypedNext ==
    \E id \in Identities, pykey \in PyKeys, value \in Values : put_any(id, pykey, value)

SpecTyped == Init /\ [][TypedNext]_vars

\* C13: put with a key that is not a str fails with the type-mismatch kind
\* of error, and nothing is written: the entries of every identity are as
\* before.
C13_NonStrKeyIsTypeMismatch ==
    [][(ret'.op = "put" /\ "keytype" \in DOMAIN ret' /\ ret' # ret)
           => /\ ret'.error \in {"StateHandlerError: key type", "TypeError"}
              /\ bot_state' = bot_state]_vars

----------------------------------------------------------------------------
(* Two bots *)

\* Each thread serves a bot of its own.
IdentityOf == [t \in Threads |-> IF t = "t1" THEN "bot1" ELSE "bot2"]

\* The values put while two bots run: one that is stored as 2 characters
\* and one that is stored as 4.
TwoBotsValues == {<<>>, <<Quote>>}

TwoBotsNext ==
    \/ \E t \in Threads :
        \/ \E key \in Keys, value \in TwoBotsValues :
               put_line54(t, IdentityOf[t], key, value)
        \/ put_line56(t)
        \/ put_line58(t)
    \/ \E id \in Identities, key \in Keys :
        \/ get(id, key)
        \/ contains(id, key)

SpecTwoBots == Init /\ [][TwoBotsNext]_vars

\* The table with the entries of every bot but id replaced by others.
WithOthers(table, id, others) ==
    [b \in Identities |-> IF b = id THEN table[b] ELSE others]

\* Entries another bot might hold instead of those it holds.
OtherEntries == {Empty, [k \in {<<"a">>} |-> marshal(<<Quote>>)]}

\* C14: an operation on one bot never changes the entries (so never the
\* total size) of another bot, and its outcome is the one it would have
\* whatever the other bot had stored, in every interleaving of the two
\* bots' operations.
C14_IdentityIsolation ==
    [][/\ \A id \in Identities :
              bot_state'[id] # bot_state[id]
                  => (ret'.op = "put" /\ ret'.id = id /\ ~ret'.raised)
       /\ \A others \in OtherEntries :
              /\ \A t \in Threads :
                     put_line58(t) =>
                         LET me == th[t]
                             alone == WithOthers(bot_state, me.id, others)
                         IN  ret' = put_ret(t, me.id, me.key, me.value,
                                        put_sizes(me.key, me.value,
                                            get_bot_state_size_key(alone, me.id, me.key),
                                            get_bot_state_size(alone, me.id)))
              /\ \A id \in Identities, key \in Keys :
                     /\ get(id, key) =>
                            ret' = get_ret(WithOthers(bot_state, id, others), id, key)
                     /\ contains(id, key) =>
                            ret'.result =
                                is_key_in_bot_state(WithOthers(bot_state, id, others), id, key)]_vars

\* A put of bot2 was accepted while bot1 alone holds more than the limit.
C14_Witness ==
    /\ ret.op = "put"
    /\ ret.id = "bot2"
    /\ ~ret.raised
    /\ get_bot_state_size(bot_state, "bot1") > state_size_limit

\* A put of bot2 was refused while bot1 holds nothing.
C14_RefusedAlone ==
    /\ ret.op = "put"
    /\ ret.id = "bot2"
    /\ ret.raised
    /\ bot_state["bot1"] = Empty

----------------------------------------------------------------------------
(* The accounting of put (SpecStore) *)

\* C15: put accepts a write exactly when the total the backend reports,
\* less the size it reports for the entry being replaced (0 for a new
\* key), plus len(key) + len(value), is at most state_size_limit.  So a
\* new total equal to the limit is accepted, and so is an overwrite by an
\* entry no larger than the one replaced when the store is within the limit.
C15_DeltaAccounting ==
    [][ret'.op = "put" =>
          LET old_total == get_bot_state_size(bot_state, ret'.id)
              is_new == ~is_key_in_bot_state(bot_state, ret'.id, ret'.key)
              old_entry_size == IF is_new THEN 0
                                ELSE Len(ret'.key) + Len(bot_state[ret'.id][ret'.key])
              new_entry_size == Len(ret'.key) + Len(ret'.value)
              new_total == old_total - old_entry_size + new_entry_size
          IN  /\ ~ret'.raised <=> new_total <= state_size_limit
              /\ ret'.new_state_size = new_total
              /\ new_total = state_size_limit => ~ret'.raised
              /\ (~is_new /\ new_entry_size <= old_entry_size
                    /\ old_total <= state_size_limit) => ~ret'.raised]_vars

\* A put whose new total is exactly the limit was accepted.
C15_Witness ==
    /\ ret.op = "put"
    /\ ~ret.raised
    /\ ret.new_state_size = state_size_limit
    /\ is_key_in_bot_state(bot_state, ret.id, ret.key)

\* An overwrite was accepted that left the key with no larger an entry.
C15_OverwriteAccepted ==
    /\ ret.op = "put"
    /\ ~ret.raised
    /\ ret.new_state_size < ret.old_state_size

----------------------------------------------------------------------------
(* The limiter on its own (SpecLimiter) *)

Limiters == {RateLimit(burst, window) : burst \in 1..MaxBurst, window \in 1..MaxWindow}

LimiterInit ==
    /\ InitStore
    /\ user_profile = Profile("bot1")
    /\ rate_limit \in Limiters
    /\ now = 0
    /\ sent = [op |-> "none"]
    /\ calls = <<>>
    /\ invocation = "running"
    /\ peer = EmbeddedBotHandler(Profile("bot2"))

\* rate_limit.is_legal(), whatever the caller does with the answer.
rate_limit_is_legal ==
    /\ Len(calls) < MaxCalls
    /\ rate_limit' = [rate_limit EXCEPT !.message_list = is_legal_list(rate_limit, now)]
    /\ calls' = Append(calls, [at |-> now, legal |-> is_legal(rate_limit, now),
                               delivered |-> FALSE])
    /\ UNCHANGED <<store_vars, user_profile, now, sent, invocation, peer>>

LimiterNext ==
    \/ rate_limit_is_legal
    \/ Tick

SpecLimiter == LimiterInit /\ [][LimiterNext]_vars

\* The calls so far that call j counts: those made later than the window
\* before it and no later than it, call j included.
CountedBy(j) ==
    {i \in 1..Len(calls) :
        calls[j].at - rate_limit.interval_limit < calls[i].at /\ calls[i].at <= calls[j].at}

\* C16: every call of is_legal() is recorded with its time, the refused
\* ones too, and the call returns true exactly when at most message_limit
\* of the recorded calls, itself included, have a time t with
\* now - interval_limit < t <= now; a call made exactly interval_limit
\* before now is not counted.  (Stated of the latest call; every call is
\* the latest one in the state it returns in.)
C16_EveryCallRecorded ==
    /\ rate_limit.message_list = [i \in 1..Len(calls) |-> calls[i].at]
    /\ calls # <<>> =>
           (calls[Len(calls)].legal
               <=> Cardinality(CountedBy(Len(calls))) <= rate_limit.message_limit)

\* The latest call was refused although, with itself, no more than
\* message_limit admitted calls fall in its window, and a call was made
\* exactly interval_limit before it.
C16_Witness ==
    /\ calls # <<>>
    /\ ~calls[Len(calls)].legal
    /\ Cardinality({i \in CountedBy(Len(calls)) : calls[i].legal}) + 1
           <= rate_limit.message_limit
    /\ \E i \in 1..Len(calls) :
           calls[i].at = calls[Len(calls)].at - rate_limit.interval_limit

----------------------------------------------------------------------------
(* Charged and stored sizes (SpecStore) *)

\* C17: after an accepted put(key, value) the size the backend reports for
\* the entry, the key's length plus the length of the payload written, is
\* the len(key) + len(value) that put charged.
C17_ChargedIsStored ==
    (ret.op = "put" /\ ~ret.raised)
        => get_bot_state_size_key(bot_state, ret.id, ret.key)
               = put_sizes(ret.key, ret.value, 0, 0).new_entry_size

----------------------------------------------------------------------------
(* Reads through the facade *)

\* One invocation that sends, writes state and reads it.
ReadingNext ==
    \/ send_message(Ping)
    \/ \E key \in Keys :
        \/ \E value \in Values : storage_put(key, value)
        \/ storage_get(key)
        \/ storage_contains(key)

SpecReading == Init /\ [][ReadingNext]_vars

\* C18: a get or a contains, whether it returns or raises, leaves every
\* entry and the total size of every bot as they were, and leaves the
\* facade's limiter as it was.
C18_ReadsChangeNothing ==
    [][(\E key \in Keys : storage_get(key) \/ storage_contains(key))
           => /\ bot_state' = bot_state
              /\ \A id \in Identities :
                     get_bot_state_size(bot_state', id) = get_bot_state_size(bot_state, id)
              /\ rate_limit' = rate_limit]_vars

\* A get raised while the store holds an entry and the limiter has
\* recorded a send.
C18_Witness ==
    /\ ret.op = "get"
    /\ ret.raised # "no"
    /\ bot_state[ret.id] # Empty
    /\ rate_limit.message_list # <<>>

\* A get returned a value after a send.
C18_GetReturned ==
    /\ ret.op = "get"
    /\ ret.raised = "no"
    /\ rate_limit.message_list # <<>>

----------------------------------------------------------------------------
(* Two facades (SpecTwoFacades) *)

\* Two facades sending within one window, in any interleaving.
TwoFacadesNext ==
    \/ send_message(Ping)
    \/ other_facade

SpecTwoFacades == Init /\ [][TwoFacadesNext]_vars

\* C19: a send_message on one facade, admitted or refused, changes nothing
\* of another facade, in particular not what is_legal() answers there; so
\* each facade admits its own first 20 sends of a window and refuses its
\* own 21st, whatever the other has sent.
C19_LimiterPerFacade ==
    [][send_message(Ping)
           => /\ peer' = peer
              /\ is_legal(peer'.rate_limit, now') = is_legal(peer.rate_limit, now)
              /\ calls'[Len(calls')].legal <=> Len(calls') <= 20]_vars

\* A facade's send was admitted after the other facade's send was refused.
C19_Witness ==
    /\ calls # <<>>
    /\ calls[Len(calls)].legal
    /\ peer.calls # <<>>
    /\ ~peer.calls[Len(peer.calls)].legal

----------------------------------------------------------------------------
(* What send_message delivers (SpecSend) *)

\* The addresses of a comma-joined recipients string, in order.
RECURSIVE AddressList(_, _)
AddressList(recipients, start) ==
    IF start > Len(recipients) + 1 THEN <<>>
    ELSE LET commas == {i \in start..Len(recipients) : SubSeq(recipients, i, i) = ","}
             stop == IF commas = {} THEN Len(recipients) + 1
                     ELSE CHOOSE i \in commas : \A k \in commas : i <= k
         IN  <<SubSeq(recipients, start, stop - 1)>> \o AddressList(recipients, stop + 1)

\* C20: an admitted send_message makes one internal_send_message call; its
\* recipient_type_name and content are the message's type and content, its
\* subject is the message's subject, or None when the message has none,
\* and its recipients are message['to'] itself for type "stream" and, for
\* any other type, the addresses of message['to'] joined by commas in
\* their order.
C20_DeliveredAsGiven ==
    [][\A message \in Messages :
          (send_message(message) /\ calls'[Len(calls')].legal)
              => /\ Len(calls') = Len(calls) + 1
                 /\ calls'[Len(calls')].delivered
                 /\ sent'.op = "internal_send_message"
                 /\ sent'.recipient_type_name = message.type
                 /\ sent'.content = message.content
                 /\ sent'.subject = IF "subject" \in DOMAIN message
                                    THEN <<message.subject>> ELSE <<>>
                 /\ IF message.type = "stream"
                    THEN sent'.recipients = message.to
                    ELSE AddressList(sent'.recipients, 1) = message.to]_vars

\* A message of another type than "stream", to three addresses and with
\* no subject, was delivered.
C20_Witness ==
    /\ sent.op = "internal_send_message"
    /\ sent.recipient_type_name = "group"
    /\ sent.content = "hello"
    /\ sent.subject = <<>>
    /\ sent.recipients = "cat@zulip,ann@zulip,bob@zulip"

====
